---- MODULE Spec2Model ----
(***************************************************************************)
(* Model of the pipeline dependency resolver of shotgrid_manager           *)
(* (src/core/dependency_resolver.py) together with the entity managers it  *)
(* queries (src/core/base_manager.py, task_manager.py).                    *)
(*                                                                         *)
(* The entity store is a set of tables (tasks, versions, shots).  A        *)
(* get_dependencies call is a sequence of blocking store round-trips: each *)
(* action below is the code that runs from the arrival of one response to  *)
(* the sending of the next request (or to the return / raise of the call). *)
(*                                                                         *)
(* The second part models the shared connection (shotgrid_instance.py),    *)
(* the operations of BaseManager and VersionManager (version_manger.py)    *)
(* and the publishing workflow (publishing_service.py), one action per     *)
(* call.                                                                   *)
(***************************************************************************)
EXTENDS Integers, Sequences, FiniteSets, TLC

VARIABLES
    tasks,      \* store: Task table, in the order the store returns rows
    versions,   \* store: Version table
    shots,      \* store: Shot table
    task,       \* DependencyResolver.task (self.task), shared by all calls
    pc,         \* per call: the round-trip the call is blocked on
    arg,        \* per call: task_id argument of get_dependencies
    req,        \* per call: the request in flight
    frame,      \* per call: local variables of the suspended functions
    result,     \* per call: list returned by get_dependencies
    exc,        \* per call: exception raised by get_dependencies ("" = none)
    qlog,       \* per call: requests sent to the store so far, in order
    managers,   \* DependencyResolver: the lazily created managers
    attachments,    \* store: Attachment table
    in_review,      \* store: ids of the tasks whose sg_status_list is 'rev'
    instance,       \* ShotgridInstance.instance: 0 is None, n the n-th Shotgun object
    _is_connected,  \* ShotgridInstance._is_connected
    live,       \* history: a connect() succeeded and no later disconnect() did
    sent,       \* API methods the last operation called on the Shotgun object
    out,        \* the last operation: its name, its exception, its return value
    able        \* environment of the last connection attempt: connect() can succeed

vars == <<tasks, versions, shots, task, pc, arg, req, frame, result, exc, qlog,
          managers, attachments, in_review, instance, _is_connected, live,
          sent, out, able>>
store == <<tasks, versions, shots, attachments, in_review>>
session == <<instance, _is_connected, live, sent, out, able>>

-----------------------------------------------------------------------------
(* Bounds of the model *)

MaxVersions == 2    \* versions in the Version table
MaxLinked == 2      \* linked assets of the shot
MaxConnections == 2 \* Shotgun objects a ShotgridInstance creates
MaxRows == 2        \* rows of the Version table once versions are created
MaxFiles == 2       \* file paths of one publish_multiple call

-----------------------------------------------------------------------------
(* Python values *)

\* None, for a link field that is null, a find_one that found nothing, or
\* self.task before the first call.
None == [type |-> "None", id |-> 0, name |-> ""]
IsNone(v) == v.type = "None"

Range(s) == {s[i] : i \in 1..Len(s)}

\* dict.get(key, default) on a table keyed by strings
DictGet(d, k, default) == IF k \in DOMAIN d THEN d[k] ELSE default

-----------------------------------------------------------------------------
(* Pipeline dependency configuration *)

\* faulty variant: 'Art' is given 'Delivery' as its upstream step
MutantASSET_DEPENDENCIES ==
    [s \in {"Art", "Model", "Rig", "Surfacing", "Texture", "Character FX",
            "LightRig", "Render", "Delivery"} |->
        CASE s = "Art" -> <<"Delivery">>
          [] s = "Model" -> <<"Art">>
          [] s = "Rig" -> <<"Model">>
          [] s = "Surfacing" -> <<"Model">>
          [] s = "Texture" -> <<"Model">>
          [] s = "Character FX" -> <<"Rig">>
          [] s = "LightRig" -> <<"Surfacing">>
          [] s = "Render" -> <<"LightRig">>
          [] s = "Delivery" -> <<"Render">>]

ASSET_DEPENDENCIES ==
    [s \in {"Art", "Model", "Rig", "Surfacing", "Texture", "Character FX",
            "LightRig", "Render", "Delivery"} |->
        CASE s = "Art" -> <<>>
          [] s = "Model" -> <<"Art">>
          [] s = "Rig" -> <<"Model">>
          [] s = "Surfacing" -> <<"Model">>
          [] s = "Texture" -> <<"Model">>
          [] s = "Character FX" -> <<"Rig">>
          [] s = "LightRig" -> <<"Surfacing">>
          [] s = "Render" -> <<"LightRig">>
          [] s = "Delivery" -> <<"Render">>]

SHOT_DEPENDENCIES ==
    [s \in {"Layout", "Animation", "Lighting", "Character FX", "FX",
            "Render", "Comp"} |->
        CASE s = "Layout" -> <<>>
          [] s = "Animation" -> <<"Layout">>
          [] s = "Lighting" -> <<"Animation">>
          [] s = "Character FX" -> <<"Animation">>
          [] s = "FX" -> <<"Animation">>
          [] s = "Render" -> <<"Lighting">>
          [] s = "Comp" -> <<"Render">>]

SHOT_ASSET_STEP_PREFERENCE == <<"Rig", "Model">>

EXCLUDED_VERSION_STATUSES == <<"rej", "omt">>

-----------------------------------------------------------------------------
(* Entity store contents *)

Ref(type, id, name) == [type |-> type, id |-> id, name |-> name]
Step(name) == [type |-> "Step", name |-> name]

Hero == Ref("Asset", 1, "hero")      \* has a Rig task and Model tasks
Prop == Ref("Asset", 2, "prop")      \* in project 1 it has a Model task only
Tree == Ref("Asset", 3, "tree")      \* has no Rig and no Model task
Sq010 == Ref("Shot", 1, "sq010_050")
Sq020 == Ref("Shot", 2, "sq020_010") \* tasks refer to it, the Shot row is gone
SandBox == Ref("Project", 1, "SandBox")
Other == Ref("Project", 2, "Other")

Assets == <<Hero, Prop, Tree>>

TaskRow(id, step, entity, project) ==
    [type |-> "Task", id |-> id, step |-> step, entity |-> entity,
     project |-> project]

\* The Task table.  Rows are listed in the order the store returns them.
TaskTable ==
    << TaskRow(6, Step("Model"), Hero, SandBox),
       TaskRow(1, Step("Model"), Hero, SandBox),
       TaskRow(2, Step("Rig"), Hero, SandBox),
       TaskRow(3, Step("Texture"), Hero, SandBox),
       TaskRow(4, Step("LightRig"), Hero, SandBox),
       TaskRow(5, Step("Render"), Hero, SandBox),
       TaskRow(7, Step("Model"), Hero, Other),
       TaskRow(8, Step("Model"), Prop, SandBox),
       TaskRow(9, Step("Rig"), Prop, Other),
       TaskRow(10, Step("Art"), Tree, SandBox),
       TaskRow(11, Step("Layout"), Sq010, SandBox),
       TaskRow(12, Step("Animation"), Sq010, SandBox),
       TaskRow(13, Step("Layout"), Sq010, Other),
       TaskRow(14, Step("Animation"), Sq020, SandBox),
       TaskRow(15, None, Hero, SandBox),
       TaskRow(16, Step("Model"), None, SandBox),
       TaskRow(17, Step("Rig"), Hero, None),
       TaskRow(18, Step("Layout"), Sq010, SandBox),
       TaskRow(19, Step("Layout"), Hero, SandBox),
       TaskRow(20, Step("Animation"), Hero, SandBox),
       TaskRow(21, Step("Model"), Hero, None),
       TaskRow(22, Step("Layout"), Sq020, SandBox) >>

\* Task ids a caller passes to get_dependencies: every row, and an id of no row.
TaskIds == {TaskTable[i].id : i \in 1..Len(TaskTable)} \cup {99}

\* Tasks that carry the versions of the Version table.
VersionedTasks == {1, 2, 8}
Statuses == {"apr", "rej", "omt"}

\* created_at of the n-th row of the Version table: distinct, and not in row order.
Stamp(n) == (n * 3) % 7

VersionRow(n, task_id, status) ==
    [type |-> "Version", id |-> 100 + n, sg_task |-> task_id,
     created_at |-> Stamp(n), sg_status_list |-> status,
     published_files |-> IF n % 2 = 0 THEN <<>> ELSE <<10 * n + 1, 10 * n + 2>>]

\* Version tables: up to MaxVersions versions of one task, any statuses.
VersionTables ==
    {<<>>} \cup
    UNION { { [n \in 1..k |-> VersionRow(n, t, st[n])] :
                st \in [1..k -> Statuses], t \in VersionedTasks } :
            k \in 1..MaxVersions }

\* Linked-asset lists of the shot: up to MaxLinked distinct assets, any order.
LinkedLists ==
    UNION { { l \in [1..k -> Range(Assets)] :
                \A i, j \in 1..k : i # j => l[i] # l[j] } :
            k \in 0..MaxLinked }

ShotRow(ref, assets) ==
    [type |-> "Shot", id |-> ref.id, code |-> ref.name, assets |-> assets]

-----------------------------------------------------------------------------
(* Store queries: what the server answers to find / find_one *)

\* A request: kind names the entity type and the filter list of the call site.
Req(kind, id, entity, vals, project) ==
    [kind |-> kind, id |-> id, entity |-> entity, vals |-> vals,
     project |-> project]
NoReq == Req("none", 0, None, <<>>, None)

\* ['field', 'is', link]: equality of entity links is by type and id.
SameLink(a, b) == a.type = b.type /\ a.id = b.id

\* ['step.Step.code', 'in', vals]: a null step has no code and matches nothing.
StepCodeIn(t, vals) == ~IsNone(t.step) /\ t.step.name \in Range(vals)

First(s) == IF Len(s) = 0 THEN None ELSE s[1]

RECURSIVE SortDesc(_)
\* order=[{'field_name': 'created_at', 'direction': 'desc'}]
SortDesc(s) ==
    IF Len(s) = 0 THEN <<>>
    ELSE LET m == CHOOSE i \in 1..Len(s) :
                    \A j \in 1..Len(s) :
                        \/ s[j].created_at < s[i].created_at
                        \/ (s[j].created_at = s[i].created_at /\ i <= j)
             rest == [k \in 1..(Len(s) - 1) |-> IF k < m THEN s[k] ELSE s[k + 1]]
         IN <<s[m]>> \o SortDesc(rest)

\* instance.find(...) of BaseManager.get_entities
Find(r) ==
    CASE r.kind = "upstream_tasks" ->
            SelectSeq(tasks, LAMBDA t : /\ SameLink(t.entity, r.entity)
                                        /\ StepCodeIn(t, r.vals)
                                        /\ SameLink(t.project, r.project))
      [] r.kind = "versions" ->
            SortDesc(SelectSeq(versions,
                LAMBDA v : /\ v.sg_task = r.id
                           /\ v.sg_status_list \notin Range(r.vals)))
      [] OTHER -> <<>>

\* instance.find_one(...) of BaseManager.get_entity: the first matching row
FindOne(r) ==
    CASE r.kind = "task_by_id" ->
            First(SelectSeq(tasks, LAMBDA t : t.id = r.id))
      [] r.kind = "shot_by_id" ->
            First(SelectSeq(shots, LAMBDA s : s.id = r.id))
      [] r.kind = "asset_task" ->
            First(SelectSeq(tasks, LAMBDA t : /\ SameLink(t.entity, r.entity)
                                              /\ StepCodeIn(t, r.vals)
                                              /\ SameLink(t.project, r.project)))
      [] OTHER -> None

\* faulty variant: the task fetch goes through an updating call
MutantApiMethod(r) ==
    CASE r.kind = "task_by_id" -> "update"
      [] r.kind \in {"shot_by_id", "asset_task"} -> "find_one"
      [] r.kind \in {"upstream_tasks", "versions"} -> "find"
      [] OTHER -> "none"

\* The method of the ShotGrid instance a request reaches: get_task,
\* shot_mgr.get_entity and task_manager.get_entity end in find_one,
\* task_manager.get_entities and version_mgr.get_entities end in find.
ApiMethod(r) ==
    CASE r.kind \in {"task_by_id", "shot_by_id", "asset_task"} -> "find_one"
      [] r.kind \in {"upstream_tasks", "versions"} -> "find"
      [] OTHER -> "none"

-----------------------------------------------------------------------------
(* DependencyResolver: accessors of the current task.  cur is the value of  *)
(* self.task at the time of the read.                                      *)

\* self.task.get('step', {}).get('name', ''): the requested field is present,
\* so a null step (or a None self.task) makes .get fail with AttributeError.
StepNameRaises(cur) == IsNone(cur) \/ IsNone(cur.step)
_get_step_name(cur) == cur.step.name

\* self.task.get('entity', {}).get('type', '')
EntityRaises(cur) == IsNone(cur) \/ IsNone(cur.entity)
_get_entity_type(cur) == cur.entity.type
_get_entity_id(cur) == cur.entity.id

\* self.task.get('project', {}): None when the task has no project
_get_project(cur) == cur.project

\* faulty variant: every task with an entity is taken for a shot task
Mutant_is_shot_task(cur) == _get_entity_type(cur) \in {"Shot", "Asset"}

_is_shot_task(cur) == _get_entity_type(cur) = "Shot"

\* faulty variant: a step missing from the table of the entity category is
\* looked up in the table of the other category
MutantAnyTable_get_upstream_step_names(step_name, entity_type) ==
    IF entity_type = "Asset"
    THEN DictGet(ASSET_DEPENDENCIES, step_name,
                 DictGet(SHOT_DEPENDENCIES, step_name, <<>>))
    ELSE IF entity_type = "Shot"
    THEN DictGet(SHOT_DEPENDENCIES, step_name,
                 DictGet(ASSET_DEPENDENCIES, step_name, <<>>))
    ELSE <<>>

\* faulty variant: the two rule tables are looked up the wrong way round
Mutant_get_upstream_step_names(step_name, entity_type) ==
    IF entity_type = "Asset" THEN DictGet(SHOT_DEPENDENCIES, step_name, <<>>)
    ELSE IF entity_type = "Shot" THEN DictGet(ASSET_DEPENDENCIES, step_name, <<>>)
    ELSE <<>>

_get_upstream_step_names(step_name, entity_type) ==
    IF entity_type = "Asset" THEN DictGet(ASSET_DEPENDENCIES, step_name, <<>>)
    ELSE IF entity_type = "Shot" THEN DictGet(SHOT_DEPENDENCIES, step_name, <<>>)
    ELSE <<>>

-----------------------------------------------------------------------------
(* Local state of a call, and what a segment of code ends with *)

Calls == {1, 2}

NoFrame ==
    [source |-> "", dep_task |-> None, preferred_step |-> "", actual_step |-> "",
     upstream_tasks |-> <<>>, i |-> 0, upstream_deps |-> <<>>,
     linked_assets |-> <<>>, a |-> 0, s |-> 0, asset_deps |-> <<>>]

\* the call blocks on request r, with locals f
Sends(at, r, f) ==
    [pc |-> at, req |-> r, frame |-> f, result |-> <<>>, exc |-> ""]
\* get_dependencies returns deps
Returns(deps) ==
    [pc |-> "done", req |-> NoReq, frame |-> NoFrame, result |-> deps, exc |-> ""]
\* get_dependencies raises e
Raises(e) ==
    [pc |-> "raised", req |-> NoReq, frame |-> NoFrame, result |-> <<>>, exc |-> e]

-----------------------------------------------------------------------------
(* DependencyResolver: building a dependency record *)

\* faulty variant: the status filter is left out of the version query
MutantLatestVersionRequest(task_id) ==
    [kind |-> "versions", id |-> task_id, entity |-> None, vals |-> <<>>,
     project |-> None]

\* the request of _get_latest_version
LatestVersionRequest(task_id) ==
    Req("versions", task_id, None, EXCLUDED_VERSION_STATUSES, None)

\* _get_latest_version, from the rows the store returned
_get_latest_version(found) == IF Len(found) > 0 THEN found[1] ELSE None

\* f"No approved version available for {step_name} on {entity_name}"
NoVersionWarning(t) ==
    <<"No approved version available for ", t.step.name, " on ", t.entity.name>>

\* f"Using {actual_step} for {entity_name} (no {preferred_step} available)"
FallbackWarning(t, preferred_step, actual_step) ==
    <<"Using ", actual_step, " for ", t.entity.name, " (no ", preferred_step,
      " available)">>

\* version_warning None
NoWarning == <<>>

\* faulty variant: the published files of the version are not copied into the record
MutantPublishedFilesOf(version) == <<>>

\* 'published_files': version.get('published_files', []) if version, else []
PublishedFilesOf(version) ==
    IF ~IsNone(version) THEN version.published_files ELSE <<>>

\* faulty variant: the no-version branch sets no warning
MutantVersionWarningOf(version, t) == NoWarning

\* 'version_warning' after "Add version data or warning"
VersionWarningOf(version, t) ==
    IF ~IsNone(version) THEN NoWarning ELSE NoVersionWarning(t)

\* faulty variant: the comparison of is_fallback is inverted
MutantIsFallback(preferred_step, actual_step) == preferred_step = actual_step

\* dependency['is_fallback'] = (preferred_step != actual_step)
IsFallback(preferred_step, actual_step) == preferred_step # actual_step

\* faulty variant: the fallback message is set only when no warning is there yet
MutantFallbackWarningOver(warning, is_fallback, t, preferred_step, actual_step) ==
    IF is_fallback /\ warning = NoWarning
    THEN FallbackWarning(t, preferred_step, actual_step)
    ELSE warning

\* 'version_warning' after "Track fallback for asset dependencies"
FallbackWarningOver(warning, is_fallback, t, preferred_step, actual_step) ==
    IF is_fallback THEN FallbackWarning(t, preferred_step, actual_step)
    ELSE warning

\* faulty variant: the fallback fields are put on every record
MutantTracksFallback(source, preferred_step, actual_step) ==
    TRUE

\* "if source == 'asset_dependency' and preferred_step and actual_step"
TracksFallback(source, preferred_step, actual_step) ==
    source = "asset_dependency" /\ preferred_step # "" /\ actual_step # ""

\* _build_dependency_dict, after its version query returned `found`
_build_dependency_dict(source, t, preferred_step, actual_step, found) ==
    LET version == _get_latest_version(found)
        base == [source |-> source, task |-> t, entity |-> t.entity,
                 step |-> t.step, version |-> version,
                 version_warning |-> VersionWarningOf(version, t),
                 published_files |-> PublishedFilesOf(version)]
        is_fallback == IsFallback(preferred_step, actual_step)
    IN IF TracksFallback(source, preferred_step, actual_step)
       THEN [k \in DOMAIN base \cup {"preferred_step", "actual_step", "is_fallback"} |->
                CASE k = "preferred_step" -> preferred_step
                  [] k = "actual_step" -> actual_step
                  [] k = "is_fallback" -> is_fallback
                  [] k = "version_warning" ->
                        FallbackWarningOver(base[k], is_fallback, t,
                                            preferred_step, actual_step)
                  [] OTHER -> base[k]]
       ELSE base

\* faulty variant: the record is put on the list twice
MutantAppendTwice(dependencies, dep) == Append(Append(dependencies, dep), dep)

\* faulty variant: the record is put at the front of the list
MutantAppendDep(dependencies, dep) == <<dep>> \o dependencies

\* dependencies.append(dep)
AppendDep(dependencies, dep) == Append(dependencies, dep)

\* faulty variant: the asset records replace the upstream records
MutantExtendDeps(upstream_deps, asset_deps) == asset_deps

\* dependencies.extend(upstream_deps); dependencies.extend(asset_deps)
ExtendDeps(upstream_deps, asset_deps) == upstream_deps \o asset_deps

\* the call of _build_dependency_dict up to its version query
BuildDependency(f, source, t, preferred_step, actual_step) ==
    Sends("version_query", LatestVersionRequest(t.id),
          [f EXCEPT !.source = source, !.dep_task = t,
                    !.preferred_step = preferred_step,
                    !.actual_step = actual_step])

-----------------------------------------------------------------------------
(* DependencyResolver: asset dependencies of a shot task *)

\* faulty variant: the preference list is walked from its last step to its first
MutantAssetTaskQuery(cur, f, a, s) ==
    IF IsNone(cur) THEN Raises("AttributeError")
    ELSE Sends("asset_query",
               Req("asset_task", 0, f.linked_assets[a],
                   <<SHOT_ASSET_STEP_PREFERENCE[
                        Len(SHOT_ASSET_STEP_PREFERENCE) + 1 - s]>>,
                   _get_project(cur)),
               [f EXCEPT !.a = a, !.s = s])

\* one iteration of the loop of _resolve_asset_task_with_fallback: the query
\* for step s of the preference list on linked asset a
AssetTaskQuery(cur, f, a, s) ==
    IF IsNone(cur) THEN Raises("AttributeError")
    ELSE Sends("asset_query",
               Req("asset_task", 0, f.linked_assets[a],
                   <<SHOT_ASSET_STEP_PREFERENCE[s]>>, _get_project(cur)),
               [f EXCEPT !.a = a, !.s = s])

\* the loop of _get_asset_dependencies, at linked asset a
NextAsset(cur, f, a) ==
    IF a > Len(f.linked_assets)
    THEN Returns(ExtendDeps(f.upstream_deps, f.asset_deps))
    ELSE AssetTaskQuery(cur, f, a, 1)

\* faulty variant: the loop over the linked assets ends at the first asset
\* that has no task on a preferred step
MutantSkipAsset(cur, f) ==
    Returns(ExtendDeps(f.upstream_deps, f.asset_deps))

\* no task on any preferred step: the asset is skipped, the loop goes on
SkipAsset(cur, f) ==
    NextAsset(cur, f, f.a + 1)

\* faulty variant: a Shot that is not found fails the call
MutantShotNotFound(f) ==
    Raises("ValueError")

\* _get_asset_dependencies found no Shot: the branch returns no record
ShotNotFound(f) ==
    Returns(ExtendDeps(f.upstream_deps, <<>>))

\* faulty variant: the Shot is fetched for every task, and again for a task
\* whose entity is not a Shot
MutantAfterUpstream(cur, f) ==
    IF EntityRaises(cur) THEN Raises("AttributeError")
    ELSE Sends("shot_query",
               Req("shot_by_id", _get_entity_id(cur), None, <<>>, None), f)

\* get_dependencies after _get_upstream_dependencies returned, and
\* _get_asset_dependencies up to its Shot query
AfterUpstream(cur, f) ==
    IF EntityRaises(cur) THEN Raises("AttributeError")
    ELSE IF ~_is_shot_task(cur) THEN Returns(ExtendDeps(f.upstream_deps, <<>>))
    ELSE Sends("shot_query",
               Req("shot_by_id", _get_entity_id(cur), None, <<>>, None), f)

-----------------------------------------------------------------------------
(* DependencyResolver: upstream dependencies *)

\* faulty variant: a task without a project is given no upstream dependency
Mutant_get_upstream_dependencies(cur, f) ==
    LET step_name == _get_step_name(cur)
        entity_type == _get_entity_type(cur)
        upstream_steps == _get_upstream_step_names(step_name, entity_type)
    IN IF Len(upstream_steps) = 0 \/ IsNone(_get_project(cur))
       THEN AfterUpstream(cur, f)
       ELSE Sends("upstream_query",
                  Req("upstream_tasks", 0, cur.entity, upstream_steps,
                      _get_project(cur)), f)

\* _get_upstream_dependencies up to its task query
_get_upstream_dependencies(cur, f) ==
    LET step_name == _get_step_name(cur)
        entity_type == _get_entity_type(cur)
        upstream_steps == _get_upstream_step_names(step_name, entity_type)
    IN IF Len(upstream_steps) = 0 THEN AfterUpstream(cur, f)
       ELSE Sends("upstream_query",
                  Req("upstream_tasks", 0, cur.entity, upstream_steps,
                      _get_project(cur)), f)

\* the loop over upstream_tasks, at index i
NextUpstream(cur, f, i) ==
    IF i > Len(f.upstream_tasks) THEN AfterUpstream(cur, f)
    ELSE BuildDependency([f EXCEPT !.i = i], "upstream_task",
                         f.upstream_tasks[i], "", "")

-----------------------------------------------------------------------------
(* Actions: one per store round-trip of get_dependencies *)

\* faulty variant: the list of the caller's earlier call is filled again
MutantNewDependencies ==
    result[1]

\* get_dependencies: "dependencies = []"
NewDependencies ==
    <<>>

\* faulty variant: the task of the earlier call stands in for a task that
\* was not found
MutantStaleTaskNotFound(t) ==
    IsNone(t) /\ IsNone(task)

\* faulty variant: a fetch that found no task is not detected
MutantTaskNotFound(t) ==
    FALSE

\* get_dependencies: "if not self.task"
TaskNotFound(t) ==
    IsNone(t)

\* _get_version_manager, _get_shot_manager: the manager a request goes
\* through is created at its first use and kept
LazyManager(r) ==
    CASE r.kind = "versions" -> {"VersionManager"}
      [] r.kind = "shot_by_id" -> {"ShotManager"}
      [] OTHER -> {}

\* call c moves on with outcome o
Advance(c, o) ==
    /\ pc' = [pc EXCEPT ![c] = o.pc]
    /\ req' = [req EXCEPT ![c] = o.req]
    /\ frame' = [frame EXCEPT ![c] = o.frame]
    /\ result' = [result EXCEPT ![c] = o.result]
    /\ exc' = [exc EXCEPT ![c] = o.exc]
    /\ qlog' = [qlog EXCEPT ![c] =
                    IF o.req.kind = "none" THEN @ ELSE Append(@, o.req)]
    /\ managers' = managers \cup LazyManager(o.req)
    /\ UNCHANGED session

\* get_dependencies(task_id) is called: self.task_manager.get_task(task_id)
Call(c, task_id) ==
    /\ pc[c] = "idle"
    /\ arg' = [arg EXCEPT ![c] = task_id]
    /\ qlog' = [qlog EXCEPT ![c] = <<Req("task_by_id", task_id, None, <<>>, None)>>]
    /\ pc' = [pc EXCEPT ![c] = "get_task"]
    /\ req' = [req EXCEPT ![c] = Req("task_by_id", task_id, None, <<>>, None)]
    /\ UNCHANGED <<store, task, frame, result, exc, managers, session>>

\* the task arrives: self.task is set, the upstream rule is looked up
GetTaskResponse(c) ==
    /\ pc[c] = "get_task"
    /\ LET t == FindOne(req[c])
       IN /\ task' = t
          /\ Advance(c, IF TaskNotFound(t) THEN Raises("ValueError")
                        ELSE IF StepNameRaises(t) \/ EntityRaises(t)
                             THEN Raises("AttributeError")
                        ELSE _get_upstream_dependencies(t,
                               [NoFrame EXCEPT !.upstream_deps = NewDependencies]))
    /\ UNCHANGED <<store, arg>>

\* the upstream tasks arrive
UpstreamResponse(c) ==
    /\ pc[c] = "upstream_query"
    /\ LET upstream_tasks == Find(req[c])
       IN Advance(c, NextUpstream(task,
                        [frame[c] EXCEPT !.upstream_tasks = upstream_tasks], 1))
    /\ UNCHANGED <<store, task, arg>>

\* the versions of the dependency task arrive: the record is built
VersionResponse(c) ==
    /\ pc[c] = "version_query"
    /\ LET f == frame[c]
           dep == _build_dependency_dict(f.source, f.dep_task, f.preferred_step,
                                         f.actual_step, Find(req[c]))
       IN Advance(c, IF f.source = "upstream_task"
                     THEN NextUpstream(task,
                            [f EXCEPT !.upstream_deps = AppendDep(@, dep)], f.i + 1)
                     ELSE NextAsset(task,
                            [f EXCEPT !.asset_deps = AppendDep(@, dep)], f.a + 1))
    /\ UNCHANGED <<store, task, arg>>

\* the Shot arrives
ShotResponse(c) ==
    /\ pc[c] = "shot_query"
    /\ LET shot == FindOne(req[c])
       IN Advance(c, IF IsNone(shot) THEN ShotNotFound(frame[c])
                     ELSE IF Len(shot.assets) = 0
                          THEN Returns(ExtendDeps(frame[c].upstream_deps, <<>>))
                     ELSE NextAsset(task,
                            [frame[c] EXCEPT !.linked_assets = shot.assets], 1))
    /\ UNCHANGED <<store, task, arg>>

\* the answer to one query of _resolve_asset_task_with_fallback arrives
AssetTaskResponse(c) ==
    /\ pc[c] = "asset_query"
    /\ LET f == frame[c]
           t == FindOne(req[c])
       IN Advance(c, IF ~IsNone(t)
                     THEN BuildDependency(f, "asset_dependency", t,
                                          SHOT_ASSET_STEP_PREFERENCE[1], t.step.name)
                     ELSE IF f.s < Len(SHOT_ASSET_STEP_PREFERENCE)
                          THEN AssetTaskQuery(task, f, f.a, f.s + 1)
                     ELSE SkipAsset(task, f))
    /\ UNCHANGED <<store, task, arg>>

\* the caller takes the result (or the exception) of the finished call
Return(c) ==
    /\ pc[c] \in {"done", "raised"}
    /\ pc' = [pc EXCEPT ![c] = "idle"]
    /\ arg' = [arg EXCEPT ![c] = 0]
    /\ result' = [result EXCEPT ![c] = <<>>]
    /\ exc' = [exc EXCEPT ![c] = ""]
    /\ qlog' = [qlog EXCEPT ![c] = <<>>]
    /\ UNCHANGED <<store, task, req, frame, managers, session>>

-----------------------------------------------------------------------------
(* ShotgridInstance: the shared connection *)

resolver == <<task, pc, arg, req, frame, result, exc, qlog, managers>>

\* the last operation, for the caller: what it raised ("" if nothing) and
\* what it returned; on is the entity type of the manager it was called on,
\* args the task id or the file paths it was called with
Out(op, e, value) ==
    [op |-> op, exc |-> e, value |-> value, on |-> "", args |-> <<>>]

\* ShotgridInstance.is_connected()
is_connected == _is_connected /\ instance # 0

\* ShotgridInstance.connect(): env tells whether SG_URL, SG_SCRIPT_NAME and
\* SG_SCRIPT_KEY are set, ctor whether sg.shotgun.Shotgun(...) returns
Connect(env, ctor) ==
    /\ IF _is_connected /\ instance # 0
       THEN /\ out' = Out("connect", "", TRUE)
            /\ UNCHANGED <<instance, _is_connected, live>>
       ELSE IF ~env
       THEN /\ out' = Out("connect", "ValueError", None)
            /\ UNCHANGED <<instance, _is_connected, live>>
       ELSE IF ctor
       THEN /\ instance < MaxConnections
            /\ instance' = instance + 1
            /\ _is_connected' = TRUE
            /\ live' = TRUE
            /\ out' = Out("connect", "", TRUE)
       ELSE /\ out' = Out("connect", "ConnectionError", None)
            /\ UNCHANGED <<instance, _is_connected, live>>
    /\ sent' = <<>>
    /\ able' = (env /\ ctor)
    /\ UNCHANGED <<store, resolver>>

\* faulty variant: the flag is cleared although close() raised
MutantFlagAfterClose(closes) == FALSE

\* disconnect(): _is_connected after instance.close(); an exception of
\* close() is logged and the assignment is skipped
FlagAfterClose(closes) == IF closes THEN FALSE ELSE _is_connected

\* ShotgridInstance.disconnect(): closes tells whether instance.close()
\* returns
Disconnect(closes) ==
    /\ IF instance # 0 /\ _is_connected
       THEN /\ sent' = <<"close">>
            /\ _is_connected' = FlagAfterClose(closes)
            /\ live' = IF closes THEN FALSE ELSE live
       ELSE /\ sent' = <<>>
            /\ UNCHANGED <<_is_connected, live>>
    /\ out' = Out("disconnect", "", None)
    /\ UNCHANGED <<instance, able, store, resolver>>

\* ShotgridInstance.ensure_connected(): the exception it raises, "" if none
ensure_connected == IF is_connected THEN "" ELSE "ConnectionError"

\* a call of ensure_connected(), in an environment where connect() would
\* succeed (env and ctor) or not
EnsureConnected(env, ctor) ==
    /\ out' = Out("ensure_connected", ensure_connected, None)
    /\ sent' = <<>>
    /\ able' = (env /\ ctor)
    /\ UNCHANGED <<instance, _is_connected, live, store, resolver>>

-----------------------------------------------------------------------------
(* BaseManager and VersionManager *)

\* BaseManager.entity of a VersionManager, and of a manager without entity type
ManagerEntities == {"Version", ""}

\* ids and timestamps the store gives to a new Version row
NewVersionId == 100 + Len(versions) + 1
NewStamp == 7 + Len(versions)

\* the Version row of VersionManager.create_version: the fields of data, and
\* the defaults of the store for the others
NewVersion(task_id, name, version_code, project_id) ==
    [type |-> "Version", id |-> NewVersionId, sg_task |-> task_id,
     created_at |-> NewStamp, sg_status_list |-> "", published_files |-> <<>>,
     project |-> project_id, code |-> name, client_code |-> version_code,
     description |-> ""]

\* instance.update(..., data={'description': description}) on a row
Described(row, description) ==
    [k \in DOMAIN row \cup {"description"} |->
        IF k = "description" THEN description ELSE row[k]]

VersionIndex(version_id) ==
    IF \E i \in 1..Len(versions) : versions[i].id = version_id
    THEN CHOOSE i \in 1..Len(versions) : versions[i].id = version_id
    ELSE 0

\* a BaseManager operation called on a manager of the given entity type
ManagerOut(entity, op, e, value) == [Out(op, e, value) EXCEPT !.on = entity]

BaseManagerOps == {"create_entity", "update_entity", "get_entities", "get_entity"}

\* faulty variant: the connection is not verified
MutantBlocked(entity) == FALSE

\* BaseManager._ensure_connected raises: the store is not reached
Blocked(entity) == entity # "" /\ ensure_connected # ""

\* VersionManager.create_version -> BaseManager.create_entity
CreateEntity(entity, task_id, name, version_code, project_id) ==
    /\ Len(versions) < MaxRows
    /\ IF entity = ""
       THEN /\ out' = ManagerOut(entity, "create_entity", "", None)
            /\ sent' = <<>>
            /\ UNCHANGED versions
       ELSE IF Blocked(entity)
       THEN /\ out' = ManagerOut(entity, "create_entity", "ConnectionError", None)
            /\ sent' = <<>>
            /\ UNCHANGED versions
       ELSE /\ versions' = Append(versions,
                    NewVersion(task_id, name, version_code, project_id))
            /\ sent' = <<"create">>
            /\ out' = ManagerOut(entity, "create_entity", "",
                          NewVersion(task_id, name, version_code, project_id))
    /\ UNCHANGED <<tasks, shots, attachments, in_review, instance,
                   _is_connected, live, able, resolver>>

\* VersionManager.update_version -> BaseManager.update_entity; the store
\* answers an id of no row with a fault
UpdateEntity(entity, entity_id, description) ==
    /\ IF entity = ""
       THEN /\ out' = ManagerOut(entity, "update_entity", "", <<>>)
            /\ sent' = <<>>
            /\ UNCHANGED versions
       ELSE IF Blocked(entity)
       THEN /\ out' = ManagerOut(entity, "update_entity", "ConnectionError", None)
            /\ sent' = <<>>
            /\ UNCHANGED versions
       ELSE IF VersionIndex(entity_id) = 0
       THEN /\ out' = ManagerOut(entity, "update_entity", "Fault", None)
            /\ sent' = <<"update">>
            /\ UNCHANGED versions
       ELSE /\ versions' = [versions EXCEPT ![VersionIndex(entity_id)] =
                                Described(@, description)]
            /\ sent' = <<"update">>
            /\ out' = ManagerOut(entity, "update_entity", "",
                          Described(versions[VersionIndex(entity_id)],
                                    description))
    /\ UNCHANGED <<tasks, shots, attachments, in_review, instance,
                   _is_connected, live, able, resolver>>

\* VersionManager.get_versions_from_task -> BaseManager.get_entities
GetEntities(entity, task_id) ==
    /\ IF entity = ""
       THEN /\ out' = ManagerOut(entity, "get_entities", "", <<>>)
            /\ sent' = <<>>
       ELSE IF Blocked(entity)
       THEN /\ out' = ManagerOut(entity, "get_entities", "ConnectionError", None)
            /\ sent' = <<>>
       ELSE /\ out' = ManagerOut(entity, "get_entities", "",
                          Find(Req("versions", task_id, None, <<>>, None)))
            /\ sent' = <<"find">>
    /\ UNCHANGED <<store, instance, _is_connected, live, able, resolver>>

\* VersionManager.get_version -> BaseManager.get_entity
GetEntity(entity, version_id) ==
    /\ IF entity = ""
       THEN /\ out' = ManagerOut(entity, "get_entity", "", None)
            /\ sent' = <<>>
       ELSE IF Blocked(entity)
       THEN /\ out' = ManagerOut(entity, "get_entity", "ConnectionError", None)
            /\ sent' = <<>>
       ELSE /\ out' = ManagerOut(entity, "get_entity", "",
                          IF VersionIndex(version_id) = 0 THEN None
                          ELSE versions[VersionIndex(version_id)])
            /\ sent' = <<"find_one">>
    /\ UNCHANGED <<store, instance, _is_connected, live, able, resolver>>

-----------------------------------------------------------------------------
(* PublishingService *)

\* os.path.exists: the files on disk, and the paths a caller passes
ExistingFiles == {"scene.ma"}
Paths == ExistingFiles \cup {"gone.abc"}
PathLists == UNION { [1..k -> Paths] : k \in 0..MaxFiles }
Descriptions == {"", "first pass"}

\* Task ids a caller publishes to: a task, a task without project, an id of
\* no row
PubTaskIds == {1, 17, 99}

RECURSIVE Digits(_)
\* the decimal digits of n, most significant first
Digits(n) == IF n < 10 THEN <<n>> ELSE Digits(n \div 10) \o <<n % 10>>

\* f"v{version_number:03d}": zero-padded to three digits, never truncated
VersionStr(n) ==
    [prefix |-> "v",
     digits |-> [i \in 1..(3 - Len(Digits(n))) |-> 0] \o Digits(n)]

PublishOps == {"publish", "publish_multiple"}

\* faulty variant: the versions of every task are counted
MutantVersionsOfTask(task_id) == versions

\* VersionManager.get_versions_from_task
VersionsOfTask(task_id) == Find(Req("versions", task_id, None, <<>>, None))

\* VersionManager.get_next_version_number_for_task: the query raises when the
\* connection is not active, and the exception is caught
get_next_version_number_for_task(task_id) ==
    IF Blocked("Version") THEN 1
    ELSE Len(VersionsOfTask(task_id)) + 1

GetNextVersionNumber(task_id) ==
    /\ out' = [Out("get_next_version_number_for_task", "",
                   get_next_version_number_for_task(task_id))
               EXCEPT !.args = <<task_id>>]
    /\ sent' = IF Blocked("Version") THEN <<>> ELSE <<"find">>
    /\ UNCHANGED <<store, instance, _is_connected, live, able, resolver>>

\* AttachmentManager.upload_attachment_to_project, for each path in turn
Uploaded(project_id, file_paths) ==
    [i \in 1..Len(file_paths) |->
        [type |-> "Attachment", id |-> Len(attachments) + i,
         project |-> project_id, path |-> file_paths[i]]]

\* PublishingService.create_version: the row after create_version and, if a
\* description is given, update_version
PublishedVersion(t, version_number, description) ==
    LET entity_name == IF IsNone(t.entity) THEN "Unknown" ELSE t.entity.name
        task_name == DictGet(t, "content", "Task")
        version_str == VersionStr(version_number)
        created == NewVersion(t.id, <<entity_name, task_name, version_str>>,
                              version_str, t.project.id)
    IN IF description # "" THEN Described(created, description) ELSE created

\* faulty variant: only the first path is checked before the work starts
MutantMissingPath(file_paths) ==
    Len(file_paths) > 0 /\ file_paths[1] \notin ExistingFiles

\* "Validate all files exist first"
MissingPath(file_paths) ==
    \E i \in 1..Len(file_paths) : file_paths[i] \notin ExistingFiles

\* The steps of publish and publish_multiple up to the first exception.
\* PublishedFileManager has no method create_published_file: the step after
\* the Version creation raises AttributeError for the first file, which
\* comes out as PublishingError.
Publishing(task_id, file_paths, description, set_task_to_review) ==
    LET t == FindOne(Req("task_by_id", task_id, None, <<>>, None))
        same == [exc |-> "", sent |-> <<>>, attachments |-> attachments,
                 versions |-> versions, in_review |-> in_review,
                 value |-> None]
    IN IF MissingPath(file_paths)
       THEN [same EXCEPT !.exc = "FileNotFoundError"]
       ELSE IF Blocked("Task")
       THEN [same EXCEPT !.exc = "PublishingError"]
       ELSE IF IsNone(t) \/ IsNone(t.project)
       THEN [same EXCEPT !.exc = "PublishingError", !.sent = <<"find_one">>]
       ELSE LET uploads == Uploaded(t.project.id, file_paths)
                version_number == get_next_version_number_for_task(task_id)
                version == PublishedVersion(t, version_number, description)
                calls == <<"find_one">>
                         \o [i \in 1..Len(file_paths) |-> "upload"]
                         \o <<"find", "create">>
                         \o (IF description # "" THEN <<"update">> ELSE <<>>)
            IN IF Len(file_paths) > 0
               THEN [exc |-> "PublishingError", sent |-> calls,
                     attachments |-> attachments \o uploads,
                     versions |-> Append(versions, version),
                     in_review |-> in_review, value |-> None]
               ELSE [exc |-> "", 
                     sent |-> calls \o (IF set_task_to_review
                                        THEN <<"update">> ELSE <<>>),
                     attachments |-> attachments,
                     versions |-> Append(versions, version),
                     in_review |-> IF set_task_to_review
                                   THEN in_review \cup {task_id}
                                   ELSE in_review,
                     value |-> [version |-> version,
                                version_number |-> version_number]]

Published(op, file_paths, r) ==
    /\ Len(versions) < MaxRows
    /\ out' = [Out(op, r.exc, r.value) EXCEPT !.args = file_paths]
    /\ sent' = r.sent
    /\ attachments' = r.attachments
    /\ versions' = r.versions
    /\ in_review' = r.in_review
    /\ UNCHANGED <<tasks, shots, instance, _is_connected, live, able, resolver>>

\* PublishingService.publish
Publish(task_id, file_path, description, set_task_to_review) ==
    Published("publish", <<file_path>>,
              Publishing(task_id, <<file_path>>, description,
                         set_task_to_review))

\* PublishingService.publish_multiple
PublishMultiple(task_id, file_paths, description, set_task_to_review) ==
    Published("publish_multiple", file_paths,
              Publishing(task_id, file_paths, description, set_task_to_review))

-----------------------------------------------------------------------------
(* Specifications *)

\* no operation of the connection, of a manager or of the publishing service
\* has been called
NoOut == [op |-> "", exc |-> "", value |-> None, on |-> "", args |-> <<>>]

\* A resolver is built on a TaskManager whose connection is established
\* ("Connection should already be established before creating managers").

Init ==
    /\ tasks = TaskTable
    /\ versions \in VersionTables
    /\ \E l \in LinkedLists : shots = <<ShotRow(Sq010, l)>>
    /\ task = None
    /\ pc = [c \in Calls |-> "idle"]
    /\ arg = [c \in Calls |-> 0]
    /\ req = [c \in Calls |-> NoReq]
    /\ frame = [c \in Calls |-> NoFrame]
    /\ result = [c \in Calls |-> <<>>]
    /\ exc = [c \in Calls |-> ""]
    /\ qlog = [c \in Calls |-> <<>>]
    /\ managers = {}
    /\ attachments = <<>>
    /\ in_review = {}
    /\ instance = 1
    /\ _is_connected = TRUE
    /\ live = TRUE
    /\ sent = <<>>
    /\ out = NoOut
    /\ able = TRUE

\* The stores of the overlapping calls: at most one version, two linked assets.
InitConc ==
    /\ Init
    /\ Len(versions) <= 1
    /\ shots[1].assets = <<Hero, Prop>>

\* Task ids of the overlapping calls: an asset task, two shot tasks, no task.
ConcTaskIds == {2, 12, 14, 99}

GetDependencies(c, ids) ==
    \/ \E task_id \in ids : Call(c, task_id)
    \/ GetTaskResponse(c)
    \/ UpstreamResponse(c)
    \/ VersionResponse(c)
    \/ ShotResponse(c)
    \/ AssetTaskResponse(c)

\* one get_dependencies call on a new resolver
Next == GetDependencies(1, TaskIds)

Spec == Init /\ [][Next]_vars

\* the same call, where the store answers every query and the code goes on:
\* each round-trip of get_dependencies is a blocking call that returns.
\* The stores hold at most one version.
InitLive == Init /\ Len(versions) <= 1

SpecLive == InitLive /\ [][Next]_vars /\ WF_vars(Next)

\* one caller: get_dependencies calls on one resolver, one after another
NextSeq == GetDependencies(1, TaskIds) \/ Return(1)

SpecSeq == Init /\ [][NextSeq]_vars

\* the same caller on the stores of the overlapping calls
SpecAgain == InitConc /\ [][NextSeq]_vars

\* one caller calls get_dependencies, keeps the outcome, and calls it again
\* with the same task id on the same resolver and store
NextTwice ==
    \/ GetDependencies(1, TaskIds)
    \/ pc[1] \in {"done", "raised"} /\ GetDependencies(2, {arg[1]})

SpecTwice == Init /\ [][NextTwice]_vars

\* two callers share the resolver: their calls interleave at the round-trips
NextConc == \E c \in Calls : GetDependencies(c, ConcTaskIds)

SpecConc == InitConc /\ [][NextConc]_vars


\* A ShotgridInstance after construction and the managers built on it, on a
\* store with no version or one version of task 8.
InitSession ==
    /\ tasks = TaskTable
    /\ versions \in {<<>>, <<VersionRow(1, 8, "apr")>>}
    /\ shots = <<ShotRow(Sq010, <<>>)>>
    /\ task = None
    /\ pc = [c \in Calls |-> "idle"]
    /\ arg = [c \in Calls |-> 0]
    /\ req = [c \in Calls |-> NoReq]
    /\ frame = [c \in Calls |-> NoFrame]
    /\ result = [c \in Calls |-> <<>>]
    /\ exc = [c \in Calls |-> ""]
    /\ qlog = [c \in Calls |-> <<>>]
    /\ managers = {}
    /\ attachments = <<>>
    /\ in_review = {}
    /\ instance = 0
    /\ _is_connected = FALSE
    /\ live = FALSE
    /\ sent = <<>>
    /\ out = NoOut
    /\ able = TRUE

ConnectionCalls ==
    \/ \E env, ctor \in BOOLEAN : Connect(env, ctor)
    \/ \E closes \in BOOLEAN : Disconnect(closes)

\* calls on the connection and on the managers, in any order
NextSession ==
    \/ ConnectionCalls
    \/ \E env, ctor \in BOOLEAN : EnsureConnected(env, ctor)
    \/ \E entity \in ManagerEntities, task_id \in {1, 8} :
          CreateEntity(entity, task_id, <<"hero", "Task">>, VersionStr(1), 1)
    \/ \E entity \in ManagerEntities, id \in {101, 102},
          description \in Descriptions \ {""} :
          UpdateEntity(entity, id, description)
    \/ \E entity \in ManagerEntities, task_id \in {1, 8} :
          GetEntities(entity, task_id)
    \/ \E entity \in ManagerEntities, id \in {101, 102} :
          GetEntity(entity, id)

SpecSession == InitSession /\ [][NextSession]_vars

\* calls on the connection and on the publishing service, in any order
NextPublish ==
    \/ ConnectionCalls
    \/ \E task_id \in PubTaskIds : GetNextVersionNumber(task_id)
    \/ \E task_id \in PubTaskIds, file_path \in Paths,
          description \in Descriptions, review \in BOOLEAN :
          Publish(task_id, file_path, description, review)
    \/ \E task_id \in PubTaskIds, file_paths \in PathLists,
          description \in Descriptions, review \in BOOLEAN :
          PublishMultiple(task_id, file_paths, description, review)

SpecPublish == InitSession /\ [][NextPublish]_vars

-----------------------------------------------------------------------------
(* Views of a finished call, used by the properties below *)

\* the row of the Task table with this id (ids are unique), None if there is none
TaskById(id) ==
    IF \E t \in Range(tasks) : t.id = id
    THEN CHOOSE t \in Range(tasks) : t.id = id
    ELSE None

\* the task the call was made for
Root(c) == TaskById(arg[c])

\* the records of the result with this source, in result order
RecordsOf(c, source) == SelectSeq(result[c], LAMBDA d : d.source = source)

\* the upstream list of a step in the rule table of an entity category
RuleOf(entity_type, step_name) ==
    LET table == IF entity_type = "Asset" THEN ASSET_DEPENDENCIES
                 ELSE SHOT_DEPENDENCIES
    IN IF step_name \in DOMAIN table THEN table[step_name] ELSE <<>>

\* the root task has a step with a non-empty upstream list
HasUpstreamRule(t) ==
    /\ ~IsNone(t) /\ ~IsNone(t.step) /\ ~IsNone(t.entity)
    /\ t.entity.type \in {"Asset", "Shot"}
    /\ Len(RuleOf(t.entity.type, t.step.name)) > 0

\* the tasks on the same entity, in the same project, on an upstream step
UpstreamTasksOf(t) ==
    { u \in Range(tasks) :
        /\ u.entity.type = t.entity.type /\ u.entity.id = t.entity.id
        /\ u.project.type = t.project.type /\ u.project.id = t.project.id
        /\ ~IsNone(u.step)
        /\ \E i \in 1..Len(RuleOf(t.entity.type, t.step.name)) :
              u.step.name = RuleOf(t.entity.type, t.step.name)[i] }

-----------------------------------------------------------------------------
(* Properties *)

\* C1: for a task whose step has a non-empty upstream list in the rule table
\* of its entity category, the upstream_task records of the result are exactly
\* the tasks on the same entity, in the same project, whose step is in that
\* list: one record per such task and no record for any other task.
C1_UpstreamExact ==
    \A c \in Calls :
        (pc[c] = "done" /\ HasUpstreamRule(Root(c))) =>
            LET ups == RecordsOf(c, "upstream_task")
            IN /\ {ups[i].task : i \in 1..Len(ups)} = UpstreamTasksOf(Root(c))
               /\ Len(ups) = Cardinality(UpstreamTasksOf(Root(c)))

\* the 'Render' task of an asset that also has a 'LightRig' and a 'Texture'
\* task returned the 'LightRig' task alone
C1_Witness ==
    /\ pc[1] = "done"
    /\ Root(1).step.name = "Render" /\ Root(1).entity.type = "Asset"
    /\ \E u \in Range(tasks) :
          u.step.name = "Texture" /\ SameLink(u.entity, Root(1).entity)
    /\ Len(result[1]) = 1
    /\ result[1][1].source = "upstream_task"
    /\ result[1][1].task.step.name = "LightRig"

\* the versions of a task whose status is not excluded
ValidVersionsOf(task_id) ==
    { v \in Range(versions) :
        v.sg_task = task_id /\ v.sg_status_list \notin {"rej", "omt"} }

\* C2: the version of every dependency record is the most recently created
\* version of the resolved task among those whose status is neither 'rej' nor
\* 'omt'; a 'rej' or 'omt' version is never the resolved version.
C2_LatestValidVersion ==
    \A c \in Calls :
        pc[c] = "done" =>
            \A i \in 1..Len(result[c]) :
                LET d == result[c][i]
                    valid == ValidVersionsOf(d.task.id)
                IN /\ valid # {} =>
                        /\ d.version \in valid
                        /\ \A v \in valid : v.created_at <= d.version.created_at
                   /\ ~IsNone(d.version) =>
                        d.version.sg_status_list \notin {"rej", "omt"}

\* the most recently created version of the task is 'omt' and the first row
\* the store holds for the task is not the newest: the older 'apr' version,
\* created before it, is resolved
C2_Witness ==
    /\ pc[1] = "done"
    /\ \E i \in 1..Len(result[1]) :
          LET d == result[1][i]
          IN /\ ~IsNone(d.version)
             /\ d.version.sg_status_list = "apr"
             /\ \E o \in Range(versions) :
                   /\ o.sg_task = d.task.id
                   /\ o.sg_status_list = "omt"
                   /\ d.version.created_at < o.created_at

\* the tasks on an asset, in a project, on a step
AssetStepTasks(asset, project, step_name) ==
    { t \in Range(tasks) :
        /\ t.entity.type = asset.type /\ t.entity.id = asset.id
        /\ t.project.type = project.type /\ t.project.id = project.id
        /\ ~IsNone(t.step) /\ t.step.name = step_name }

\* the index in <<'Rig', 'Model'>> of the first step the asset has a task on
\* (0 if it has none)
FirstPreferredIndex(asset, project) ==
    LET pref == <<"Rig", "Model">>
        hits == { k \in 1..Len(pref) : AssetStepTasks(asset, project, pref[k]) # {} }
    IN IF hits = {} THEN 0 ELSE CHOOSE k \in hits : \A h \in hits : k <= h

\* the linked-asset list of the shot of a shot task (empty if the row is gone)
LinkedAssetsOf(t) ==
    IF \E s \in Range(shots) : s.id = t.entity.id
    THEN (CHOOSE s \in Range(shots) : s.id = t.entity.id).assets
    ELSE <<>>

\* the per-asset task queries call c has sent for an asset, in the order sent
AssetQueriesOf(c, asset) ==
    SelectSeq(qlog[c], LAMBDA q : q.kind = "asset_task" /\ SameLink(q.entity, asset))

IsShotRoot(c) ==
    ~IsNone(Root(c)) /\ ~IsNone(Root(c).entity) /\ Root(c).entity.type = "Shot"

\* C3: for a Shot task and each linked Asset, the resolved task is a task on
\* that Asset, in the project of the current task, on the first step of
\* <<'Rig', 'Model'>> for which such a task exists; the steps are queried in
\* list order, and a step is queried only if no earlier step yielded a task.
C3_PreferenceOrder ==
    \A c \in Calls :
        (pc[c] # "idle" /\ IsShotRoot(c)) =>
            LET root == Root(c)
                pref == <<"Rig", "Model">>
                linked == LinkedAssetsOf(root)
                recs == RecordsOf(c, "asset_dependency")
            IN /\ \A n \in 1..Len(linked) :
                    LET qs == AssetQueriesOf(c, linked[n])
                    IN \A j \in 1..Len(qs) :
                          /\ j <= Len(pref)
                          /\ qs[j].vals = <<pref[j]>>
                          /\ \A h \in 1..(j - 1) :
                                AssetStepTasks(linked[n], root.project, pref[h]) = {}
               /\ pc[c] = "done" =>
                    /\ \A i \in 1..Len(recs) :
                          /\ \E n \in 1..Len(linked) :
                                SameLink(recs[i].task.entity, linked[n])
                          /\ SameLink(recs[i].task.project, root.project)
                          /\ FirstPreferredIndex(recs[i].task.entity, root.project) > 0
                          /\ recs[i].task.step.name =
                                pref[FirstPreferredIndex(recs[i].task.entity, root.project)]
                    /\ \A n \in 1..Len(linked) :
                          FirstPreferredIndex(linked[n], root.project) > 0 =>
                              \E i \in 1..Len(recs) :
                                  SameLink(recs[i].task.entity, linked[n])

\* a shot task resolved one asset on 'Rig' with one query and another asset on
\* 'Model' after a 'Rig' query that found nothing
C3_Witness ==
    /\ pc[1] = "done" /\ IsShotRoot(1)
    /\ \E i, j \in 1..Len(result[1]) :
          /\ result[1][i].source = "asset_dependency"
          /\ result[1][j].source = "asset_dependency"
          /\ result[1][i].task.step.name = "Rig"
          /\ Len(AssetQueriesOf(1, result[1][i].task.entity)) = 1
          /\ result[1][j].task.step.name = "Model"
          /\ Len(AssetQueriesOf(1, result[1][j].task.entity)) = 2

\* the record is an asset dependency resolved on a fallback step
IsFallbackRecord(d) == "is_fallback" \in DOMAIN d /\ d.is_fallback

\* C4: in every asset_dependency record preferred_step is 'Rig', the first
\* element of the preference list, whichever step matched; actual_step is the
\* step of the resolved task; is_fallback is true iff the two differ.
C4_FallbackFields ==
    \A c \in Calls :
        pc[c] = "done" =>
            \A i \in 1..Len(result[c]) :
                LET d == result[c][i]
                IN d.source = "asset_dependency" =>
                      /\ {"preferred_step", "actual_step", "is_fallback"} \subseteq DOMAIN d
                      /\ d.preferred_step = "Rig"
                      /\ d.actual_step = d.task.step.name
                      /\ d.is_fallback = (d.actual_step # d.preferred_step)

\* one result holds an asset resolved on 'Rig' and an asset resolved on 'Model'
C4_Witness ==
    /\ pc[1] = "done"
    /\ \E i, j \in 1..Len(result[1]) :
          /\ result[1][i].source = "asset_dependency"
          /\ result[1][i].task.step.name = "Model"
          /\ result[1][i].preferred_step = "Rig"
          /\ result[1][i].is_fallback
          /\ result[1][j].source = "asset_dependency"
          /\ result[1][j].task.step.name = "Rig"
          /\ ~result[1][j].is_fallback

\* C5: an asset_dependency record with is_fallback true carries the fallback
\* message 'Using {actual_step} for {entity} (no {preferred_step} available)'
\* as version_warning, and not the no-version message, whether or not the
\* resolved task has a valid version.
C5_FallbackWarningWins ==
    \A c \in Calls :
        pc[c] = "done" =>
            \A i \in 1..Len(result[c]) :
                LET d == result[c][i]
                IN IsFallbackRecord(d) =>
                      /\ d.version_warning =
                            <<"Using ", d.actual_step, " for ", d.entity.name,
                              " (no ", d.preferred_step, " available)">>
                      /\ d.version_warning # NoVersionWarning(d.task)

\* a fallback record whose task has no valid version
C5_Witness ==
    /\ pc[1] = "done"
    /\ \E i \in 1..Len(result[1]) :
          /\ IsFallbackRecord(result[1][i])
          /\ IsNone(result[1][i].version)
          /\ ValidVersionsOf(result[1][i].task.id) = {}
          /\ result[1][i].version_warning[1] = "Using "

\* C6: a record whose task has no version with a non-excluded status has
\* version none, no published files and a non-empty version_warning, which
\* for a non-fallback record is
\* 'No approved version available for {step} on {entity}'.
C6_NoVersionRecord ==
    \A c \in Calls :
        pc[c] = "done" =>
            \A i \in 1..Len(result[c]) :
                LET d == result[c][i]
                IN ValidVersionsOf(d.task.id) = {} =>
                      /\ IsNone(d.version)
                      /\ d.published_files = <<>>
                      /\ Len(d.version_warning) > 0
                      /\ ~IsFallbackRecord(d) =>
                            d.version_warning =
                                <<"No approved version available for ",
                                  d.task.step.name, " on ", d.task.entity.name>>

\* an upstream task all of whose versions are rejected or omitted
C6_Witness ==
    /\ pc[1] = "done"
    /\ \E i \in 1..Len(result[1]) :
          /\ result[1][i].source = "upstream_task"
          /\ ValidVersionsOf(result[1][i].task.id) = {}
          /\ \E v \in Range(versions) : v.sg_task = result[1][i].task.id
          /\ IsNone(result[1][i].version)
          /\ result[1][i].version_warning[1] = "No approved version available for "

\* the row of the Version table with this id
VersionById(id) == CHOOSE v \in Range(versions) : v.id = id

\* C7: a record whose latest version exists and that is not a fallback has the
\* published files of that version and no version_warning.
C7_VersionRecord ==
    \A c \in Calls :
        pc[c] = "done" =>
            \A i \in 1..Len(result[c]) :
                LET d == result[c][i]
                IN (ValidVersionsOf(d.task.id) # {} /\ ~IsFallbackRecord(d)) =>
                      /\ ~IsNone(d.version)
                      /\ d.published_files = VersionById(d.version.id).published_files
                      /\ d.version_warning = NoWarning

\* a non-fallback record with a version that has published files
C7_Witness ==
    /\ pc[1] = "done"
    /\ \E i \in 1..Len(result[1]) :
          /\ ~IsFallbackRecord(result[1][i])
          /\ ~IsNone(result[1][i].version)
          /\ Len(result[1][i].published_files) = 2
          /\ result[1][i].version_warning = NoWarning

\* the rows of the Task table the upstream query of task t matches, in the
\* order of the table
UpstreamRowsOf(t) ==
    SelectSeq(tasks, LAMBDA u : HasUpstreamRule(t) /\ u \in UpstreamTasksOf(t))

\* the position of an asset in a linked-asset list (0 if it is not in it)
PositionIn(linked, asset) ==
    IF \E n \in 1..Len(linked) : SameLink(linked[n], asset)
    THEN CHOOSE n \in 1..Len(linked) : SameLink(linked[n], asset)
    ELSE 0

\* C9: in the returned list every upstream_task record precedes every
\* asset_dependency record; the upstream_task records are in the order in
\* which the store returned the tasks, and the asset_dependency records are in
\* the order of the linked-asset list of the Shot.
C9_ResultOrder ==
    \A c \in Calls :
        pc[c] = "done" =>
            LET r == result[c]
                ups == RecordsOf(c, "upstream_task")
                recs == RecordsOf(c, "asset_dependency")
                linked == LinkedAssetsOf(Root(c))
            IN /\ \A i, j \in 1..Len(r) :
                    (r[i].source = "asset_dependency" /\ r[j].source = "upstream_task")
                        => j < i
               /\ [i \in 1..Len(ups) |-> ups[i].task] = UpstreamRowsOf(Root(c))
               /\ \A i, j \in 1..Len(recs) :
                    i < j => /\ PositionIn(linked, recs[i].task.entity) > 0
                             /\ PositionIn(linked, recs[i].task.entity)
                                   < PositionIn(linked, recs[j].task.entity)

\* two upstream records followed by two asset records
C9_Witness ==
    /\ pc[1] = "done"
    /\ Len(result[1]) = 4
    /\ result[1][1].source = "upstream_task"
    /\ result[1][2].source = "upstream_task"
    /\ result[1][1].task.id # result[1][2].task.id
    /\ result[1][3].source = "asset_dependency"
    /\ result[1][4].source = "asset_dependency"
    /\ result[1][3].task.entity.id # result[1][4].task.entity.id

\* C10: for a task whose owning entity is an Asset the result holds no
\* asset_dependency record and no Shot lookup (and no per-asset task query) is
\* sent; a call that sends a Shot lookup is a call for a Shot task.
C10_AssetTaskNoAssetBranch ==
    \A c \in Calls :
        /\ (pc[c] # "idle" /\ ~IsNone(Root(c)) /\ Root(c).entity.type = "Asset") =>
              /\ \A i \in 1..Len(qlog[c]) :
                    qlog[c][i].kind \notin {"shot_by_id", "asset_task"}
              /\ \A i \in 1..Len(result[c]) :
                    result[c][i].source # "asset_dependency"
        /\ (\E i \in 1..Len(qlog[c]) : qlog[c][i].kind \in {"shot_by_id", "asset_task"})
              => IsShotRoot(c)

\* a finished call for an asset task that returned upstream records
C10_Witness ==
    /\ pc[1] = "done"
    /\ ~IsNone(Root(1)) /\ Root(1).entity.type = "Asset"
    /\ Len(result[1]) = 2
    /\ \E i \in 1..2 : ~IsNone(result[1][i].version)

\* What get_dependencies(task_id) produces when it runs alone on the store:
\* the exception it raises ("" if none) and the list it returns.
AloneUpstream(t) ==
    LET rows == UpstreamRowsOf(t)
    IN [i \in 1..Len(rows) |->
            _build_dependency_dict("upstream_task", rows[i], "", "",
                                   Find(LatestVersionRequest(rows[i].id)))]

AloneAssets(t) ==
    LET pref == <<"Rig", "Model">>
        resolved == SelectSeq(LinkedAssetsOf(t),
                        LAMBDA a : FirstPreferredIndex(a, t.project) > 0)
        RowOf(a) == First(SelectSeq(tasks, LAMBDA u :
                        u \in AssetStepTasks(a, t.project,
                                  pref[FirstPreferredIndex(a, t.project)])))
    IN [i \in 1..Len(resolved) |->
            _build_dependency_dict("asset_dependency", RowOf(resolved[i]), pref[1],
                                   RowOf(resolved[i]).step.name,
                                   Find(LatestVersionRequest(RowOf(resolved[i]).id)))]

Alone(task_id) ==
    LET t == TaskById(task_id)
    IN IF IsNone(t) THEN [exc |-> "ValueError", result |-> <<>>]
       ELSE IF IsNone(t.step) \/ IsNone(t.entity)
            THEN [exc |-> "AttributeError", result |-> <<>>]
       ELSE [exc |-> "",
             result |-> AloneUpstream(t) \o
                        (IF t.entity.type = "Shot" THEN AloneAssets(t) ELSE <<>>)]

\* C8: when two get_dependencies calls for different tasks interleave on one
\* shared resolver, the current task of one call never leaks into the other:
\* each call ends as it ends when it runs alone.
C8_NoLeakBetweenCalls ==
    \A c, o \in Calls :
        ( /\ c # o /\ pc[c] \in {"done", "raised"} /\ pc[o] # "idle"
          /\ arg[c] # arg[o] /\ ~IsNone(Root(c)) /\ ~IsNone(Root(o)) ) =>
            /\ exc[c] = Alone(arg[c]).exc
            /\ result[c] = Alone(arg[c]).result

\* the root task has a step and an entity, and the rule table of its entity
\* category gives the step no upstream step (empty list, or no key)
HasNoUpstreamRule(t) ==
    /\ ~IsNone(t) /\ ~IsNone(t.step) /\ ~IsNone(t.entity)
    /\ Len(RuleOf(t.entity.type, t.step.name)) = 0

\* C11: if the step of the current task has an empty upstream list in the rule
\* table of its entity category, or is not a key of that table (a step that is
\* a key of the other table only, such as 'Layout' on an Asset, included),
\* get_dependencies raises nothing and returns no upstream_task record.
C11_NoRuleNoUpstream ==
    \A c \in Calls :
        (pc[c] # "idle" /\ HasNoUpstreamRule(Root(c))) =>
            /\ pc[c] # "raised"
            /\ pc[c] = "done" => Len(RecordsOf(c, "upstream_task")) = 0

\* an 'Animation' task on an asset that also has a 'Layout' task returned an
\* empty list: 'Animation' is a key of the Shot table only
C11_Witness ==
    /\ pc[1] = "done"
    /\ Root(1).step.name = "Animation" /\ Root(1).entity.type = "Asset"
    /\ "Animation" \notin DOMAIN ASSET_DEPENDENCIES
    /\ \E u \in Range(tasks) :
          /\ ~IsNone(u.step) /\ u.step.name = "Layout"
          /\ SameLink(u.entity, Root(1).entity)
          /\ SameLink(u.project, Root(1).project)
    /\ result[1] = <<>>

\* C12: get_dependencies called with a task id that matches no task raises
\* ValueError, the not-found error, and sends no query to the store after the
\* task fetch that found nothing.
C12_NotFound ==
    \A c \in Calls :
        (pc[c] # "idle" /\ IsNone(Root(c))) =>
            /\ pc[c] \in {"get_task", "raised"}
            /\ Len(qlog[c]) = 1
            /\ qlog[c][1].kind = "task_by_id" /\ qlog[c][1].id = arg[c]
            /\ pc[c] = "raised" => exc[c] = "ValueError"

\* the call for an id of no row has raised ValueError after its one query
C12_Witness ==
    /\ pc[1] = "raised" /\ exc[1] = "ValueError"
    /\ \A t \in Range(tasks) : t.id # arg[1]
    /\ Len(qlog[1]) = 1

\* the Shot table holds the shot of the root task
ShotRowExists(t) == \E s \in Range(shots) : s.id = t.entity.id

\* the tasks of the records, in the order of the records
TasksOf(recs) == [i \in 1..Len(recs) |-> recs[i].task]

\* C13: for a Shot task whose Shot has no linked asset, the asset branch sends
\* no per-asset query, returns no record and raises nothing, and the
\* upstream_task records of the call are still returned.
C13_NoLinkedAssets ==
    \A c \in Calls :
        ( /\ pc[c] # "idle" /\ IsShotRoot(c) /\ ShotRowExists(Root(c))
          /\ Len(LinkedAssetsOf(Root(c))) = 0 ) =>
            /\ pc[c] # "raised"
            /\ \A i \in 1..Len(qlog[c]) : qlog[c][i].kind # "asset_task"
            /\ pc[c] = "done" =>
                  /\ Len(RecordsOf(c, "asset_dependency")) = 0
                  /\ TasksOf(RecordsOf(c, "upstream_task")) = UpstreamRowsOf(Root(c))

\* an 'Animation' task of a shot without linked assets returned the records of
\* its two 'Layout' tasks
C13_Witness ==
    /\ pc[1] = "done" /\ IsShotRoot(1)
    /\ shots[1].id = Root(1).entity.id /\ shots[1].assets = <<>>
    /\ Len(result[1]) = 2
    /\ \A i \in 1..2 : result[1][i].source = "upstream_task"

\* the positions of the linked assets that have a task on a preferred step
ResolvableAssets(t) ==
    { n \in 1..Len(LinkedAssetsOf(t)) :
        FirstPreferredIndex(LinkedAssetsOf(t)[n], t.project) > 0 }

\* C14: for a Shot task, a linked asset without a task on any preferred step
\* contributes no record and does not fail the call; every linked asset with
\* such a task contributes exactly one record, so the asset_dependency records
\* are as many as the linked assets that have a task on a preferred step.
C14_SkipAssetWithoutTask ==
    \A c \in Calls :
        (pc[c] # "idle" /\ IsShotRoot(c) /\ ShotRowExists(Root(c))) =>
            /\ pc[c] # "raised"
            /\ pc[c] = "done" =>
                  LET root == Root(c)
                      linked == LinkedAssetsOf(root)
                      recs == RecordsOf(c, "asset_dependency")
                  IN /\ Len(recs) = Cardinality(ResolvableAssets(root))
                     /\ \A n \in 1..Len(linked) :
                           Cardinality({ i \in 1..Len(recs) :
                               SameLink(recs[i].task.entity, linked[n]) })
                             = IF n \in ResolvableAssets(root) THEN 1 ELSE 0

\* the first linked asset has no 'Rig' and no 'Model' task, the second has
\* one: the result holds the record of the second alone
C14_Witness ==
    /\ pc[1] = "done" /\ IsShotRoot(1) /\ ShotRowExists(Root(1))
    /\ Len(LinkedAssetsOf(Root(1))) = 2
    /\ ResolvableAssets(Root(1)) = {2}
    /\ Len(RecordsOf(1, "asset_dependency")) = 1
    /\ SameLink(RecordsOf(1, "asset_dependency")[1].task.entity,
                LinkedAssetsOf(Root(1))[2])

\* C15: if the step or the owning entity of the fetched task is missing,
\* get_dependencies raises no exception and returns no upstream_task record.
C15_MissingStepOrEntity ==
    \A c \in Calls :
        ( /\ pc[c] # "idle" /\ ~IsNone(Root(c))
          /\ (IsNone(Root(c).step) \/ IsNone(Root(c).entity)) ) =>
            /\ pc[c] # "raised"
            /\ pc[c] = "done" => Len(RecordsOf(c, "upstream_task")) = 0

\* the root task has a step and an entity, and no project
LacksProject(t) ==
    ~IsNone(t) /\ ~IsNone(t.step) /\ ~IsNone(t.entity) /\ IsNone(t.project)

\* C16, as stated: if the fetched task lacks a project, get_dependencies
\* raises no exception and returns no upstream_task record.
C16_NoProjectNoUpstream ==
    \A c \in Calls :
        (pc[c] # "idle" /\ LacksProject(Root(c))) =>
            /\ pc[c] # "raised"
            /\ pc[c] = "done" => Len(RecordsOf(c, "upstream_task")) = 0

\* C16, amended: if the fetched task lacks a project, get_dependencies raises
\* no exception; when its step has upstream steps the upstream query is still
\* sent, with the missing project as its project filter, and the upstream_task
\* records are exactly the tasks on the same entity, on an upstream step, that
\* lack a project too (no record when there is no such task).
C16_NoProjectStillQueries ==
    \A c \in Calls :
        (pc[c] # "idle" /\ LacksProject(Root(c))) =>
            /\ pc[c] # "raised"
            /\ pc[c] = "done" =>
                  LET ups == RecordsOf(c, "upstream_task")
                  IN /\ TasksOf(ups) = UpstreamRowsOf(Root(c))
                     /\ \A i \in 1..Len(ups) : IsNone(ups[i].task.project)
                     /\ HasUpstreamRule(Root(c)) =>
                           \E i \in 1..Len(qlog[c]) :
                               /\ qlog[c][i].kind = "upstream_tasks"
                               /\ IsNone(qlog[c][i].project)

\* a 'Rig' task without a project returned the record of the 'Model' task on
\* the same asset that has no project either
C16_Witness ==
    /\ pc[1] = "done" /\ LacksProject(Root(1))
    /\ Root(1).step.name = "Rig"
    /\ Len(result[1]) = 1
    /\ result[1][1].source = "upstream_task"
    /\ result[1][1].task.step.name = "Model"
    /\ IsNone(result[1][1].task.project)

\* C17: for a Shot task whose Shot lookup finds no Shot, the call does not
\* raise and sends no per-asset query: it returns exactly the upstream_task
\* records of the task and no asset_dependency record.
C17_ShotNotFound ==
    \A c \in Calls :
        (pc[c] # "idle" /\ IsShotRoot(c) /\ ~ShotRowExists(Root(c))) =>
            /\ pc[c] # "raised"
            /\ \A i \in 1..Len(qlog[c]) : qlog[c][i].kind # "asset_task"
            /\ pc[c] = "done" =>
                  /\ Len(RecordsOf(c, "asset_dependency")) = 0
                  /\ TasksOf(result[c]) = UpstreamRowsOf(Root(c))
                  /\ \A i \in 1..Len(result[c]) : result[c][i].source = "upstream_task"

\* an 'Animation' task of a shot that has no row in the Shot table sent the
\* Shot query and returned the record of its 'Layout' task alone
C17_Witness ==
    /\ pc[1] = "done" /\ IsShotRoot(1) /\ ~ShotRowExists(Root(1))
    /\ Root(1).step.name = "Animation"
    /\ \E i \in 1..Len(qlog[1]) : qlog[1][i].kind = "shot_by_id"
    /\ Len(result[1]) = 1
    /\ result[1][1].task.step.name = "Layout"

\* C18: for every task id that exists, get_dependencies returns a list and
\* never raises; the only fatal outcome is the root task not being found.
C18_ExistingTaskNeverRaises ==
    \A c \in Calls :
        (pc[c] # "idle" /\ ~IsNone(Root(c))) =>
            /\ pc[c] # "raised"
            /\ exc[c] = ""

\* C19: get_dependencies only reads the store: every request of a call is a
\* find or a find_one, never a create, update, upload or delete, and no step
\* of a call, returning or raising, changes the contents of the store.
C19_ReadOnly ==
    [][ /\ store' = store
        /\ \A c \in Calls : \A i \in 1..Len(qlog'[c]) :
               ApiMethod(qlog'[c][i]) \in {"find", "find_one"} ]_vars

\* a Shot task call has returned after the task fetch, the upstream query,
\* version queries, the Shot query and per-asset queries, on the store it
\* started with
C19_Witness ==
    /\ pc[1] = "done" /\ tasks = TaskTable
    /\ \A k \in {"task_by_id", "upstream_tasks", "versions", "shot_by_id",
                  "asset_task"} :
          \E i \in 1..Len(qlog[1]) : qlog[1][i].kind = k
    /\ \A i \in 1..Len(qlog[1]) : ApiMethod(qlog[1][i]) \in {"find", "find_one"}

\* C20: two get_dependencies calls with the same task id, one after the other
\* on an unchanged store whose queries answer in a fixed order, return lists
\* that are equal, record by record and in the same order.
C20_SameCallSameResult ==
    (pc[1] = "done" /\ pc[2] \in {"done", "raised"} /\ arg[2] = arg[1]) =>
        /\ pc[2] = "done"
        /\ result[2] = result[1]

\* the second call for a Shot task has returned the same upstream and asset
\* records as the first
C20_Witness ==
    /\ pc[1] = "done" /\ pc[2] = "done" /\ arg[2] = arg[1]
    /\ Len(RecordsOf(2, "upstream_task")) > 0
    /\ Len(RecordsOf(2, "asset_dependency")) > 0
    /\ \E i \in 1..Len(result[2]) : ~IsNone(result[2][i].version)
    /\ result[2] = result[1]

\* C21: the tasks of the upstream query result are distinct and so are the
\* linked assets of the Shot; then each resolved task is in at most one record
\* of a result, and no task is both an upstream_task and an asset_dependency.
C21_NoDuplicateTask ==
    \A c \in Calls :
        pc[c] = "done" =>
            /\ \A i, j \in 1..Len(result[c]) :
                  i # j => result[c][i].task.id # result[c][j].task.id
            /\ \A u \in Range(RecordsOf(c, "upstream_task")) :
                  \A a \in Range(RecordsOf(c, "asset_dependency")) :
                      u.task.id # a.task.id

\* a result with two upstream records and two asset records, of four tasks
C21_Witness ==
    /\ pc[1] = "done"
    /\ Len(RecordsOf(1, "upstream_task")) = 2
    /\ Len(RecordsOf(1, "asset_dependency")) = 2
    /\ Cardinality({ result[1][i].task.id : i \in 1..Len(result[1]) }) = 4

\* C22: every record of a result has source upstream_task or
\* asset_dependency, and the entity and the step of its resolved task; the
\* fields preferred_step, actual_step and is_fallback are on every
\* asset_dependency record and on no upstream_task record.
C22_RecordShape ==
    \A c \in Calls :
        pc[c] = "done" =>
            \A i \in 1..Len(result[c]) :
                LET d == result[c][i]
                    fallback == {"preferred_step", "actual_step", "is_fallback"}
                IN /\ d.source \in {"upstream_task", "asset_dependency"}
                   /\ d.entity = d.task.entity
                   /\ d.step = d.task.step
                   /\ d.source = "asset_dependency" => fallback \subseteq DOMAIN d
                   /\ d.source = "upstream_task" => fallback \cap DOMAIN d = {}

\* a result that holds a record of each source
C22_Witness ==
    /\ pc[1] = "done"
    /\ \E i, j \in 1..Len(result[1]) :
          /\ result[1][i].source = "upstream_task"
          /\ "is_fallback" \notin DOMAIN result[1][i]
          /\ result[1][i].entity.type = "Shot"
          /\ result[1][j].source = "asset_dependency"
          /\ "is_fallback" \in DOMAIN result[1][j]
          /\ result[1][j].entity.type = "Asset"

\* the steps one upstream link away from a step of S
LinksOf(table, S) == UNION { Range(table[s]) : s \in S \cap DOMAIN table }

\* the steps reached from S by one to n upstream links
RECURSIVE ReachN(_, _, _)
ReachN(table, S, n) ==
    LET next == LinksOf(table, S)
    IN IF n = 0 \/ next = {} THEN {}
       ELSE next \cup ReachN(table, next, n - 1)

\* the steps reached from a step by one or more upstream links
ReachOf(table, step) == ReachN(table, {step}, Cardinality(DOMAIN table))

\* the rule table get_dependencies uses for the root task of call c
TableOf(c) ==
    IF _get_entity_type(Root(c)) = "Asset" THEN ASSET_DEPENDENCIES
    ELSE SHOT_DEPENDENCIES

\* C28: the rule tables are closed and acyclic: every upstream step a table
\* names is a key of the same table, no step reaches itself by upstream
\* links, and the links from every step lead to a step with an empty list;
\* so it is for the table and the step of the task of every call.
C28_RuleTablesClosedAcyclic ==
    \A c \in Calls :
        (pc[c] # "idle" /\ ~IsNone(Root(c)) /\ ~EntityRaises(Root(c))) =>
            LET table == TableOf(c)
            IN \A step \in DOMAIN table :
                  /\ Range(table[step]) \subseteq DOMAIN table
                  /\ step \notin ReachOf(table, step)
                  /\ \E r \in ReachOf(table, step) \cup {step} : table[r] = <<>>
                  /\ step \notin Range(_get_upstream_step_names(step,
                                            _get_entity_type(Root(c))))

\* the call is for a 'Render' task of an asset, whose upstream links lead by
\* 'LightRig', 'Surfacing' and 'Model' to the root 'Art'; the Shot table has
\* a chain from 'Comp' to 'Layout'
C28_Witness ==
    /\ pc[1] = "done" /\ ~IsNone(Root(1)) /\ ~EntityRaises(Root(1))
    /\ ~StepNameRaises(Root(1)) /\ _get_step_name(Root(1)) = "Render"
    /\ ReachOf(TableOf(1), "Render") = {"LightRig", "Surfacing", "Model", "Art"}
    /\ TableOf(1)["Art"] = <<>>
    /\ ReachOf(SHOT_DEPENDENCIES, "Comp") =
          {"Render", "Lighting", "Animation", "Layout"}

\* the requests of a kind that call c has sent, in the order sent
QueriesOf(c, kind) == SelectSeq(qlog[c], LAMBDA q : q.kind = kind)

\* the call is blocked on a store query
Waiting(c) ==
    pc[c] \in {"get_task", "upstream_query", "version_query", "shot_query",
               "asset_query"}

\* the queries of call c so far are those of a get_dependencies call
SequentialQueries(c) ==
    /\ qlog[c][1].kind = "task_by_id" /\ Len(QueriesOf(c, "task_by_id")) = 1
    /\ Len(QueriesOf(c, "upstream_tasks")) <= 1
    /\ Len(QueriesOf(c, "shot_by_id")) <= 1
    /\ ~IsShotRoot(c) =>
          Len(QueriesOf(c, "shot_by_id")) + Len(QueriesOf(c, "asset_task")) = 0
    /\ LET qs == QueriesOf(c, "asset_task")
       IN \A i, j \in 1..Len(qs) :
             (i # j /\ SameLink(qs[i].entity, qs[j].entity)) => qs[i].vals # qs[j].vals
    /\ Waiting(c) => req[c] = qlog[c][Len(qlog[c])]
    /\ ~Waiting(c) => req[c] = NoReq
    /\ pc[c] = "done" =>
          /\ Len(QueriesOf(c, "versions")) = Len(result[c])
          /\ \A i \in 1..Len(result[c]) :
                Cardinality({ k \in 1..Len(qlog[c]) :
                    /\ qlog[c][k].kind = "versions"
                    /\ qlog[c][k].id = result[c][i].task.id }) = 1

\* C29: every get_dependencies call ends, after store queries sent one at a
\* time: the task fetch first, then at most one upstream task query, then,
\* for Shot tasks only, at most one Shot fetch and at most one task query per
\* linked asset and preferred step, and exactly one version query for each
\* record returned.
C29_BoundedSequentialQueries ==
    /\ [](\A c \in Calls : pc[c] # "idle" => SequentialQueries(c))
    /\ \A c \in Calls : (pc[c] # "idle") ~> (pc[c] \in {"done", "raised"})

\* a Shot task call has ended after eleven queries: the task fetch, the
\* upstream query, the Shot fetch, three per-asset task queries and a version
\* query for each of its four records
C29_Witness ==
    /\ pc[1] = "done" /\ IsShotRoot(1)
    /\ Len(result[1]) = 4
    /\ Len(QueriesOf(1, "asset_task")) = 3
    /\ Len(QueriesOf(1, "versions")) = 4
    /\ Len(qlog[1]) = 10

\* C27: the outcome of get_dependencies(task_id) does not depend on the calls
\* made before it on the same resolver: after any sequence of earlier calls,
\* a call that raised for an unknown id included, and as the first call of a
\* new resolver, the call ends with the same exception or the same list.
C27_IndependentOfEarlierCalls ==
    \A c \in Calls :
        pc[c] \in {"done", "raised"} =>
            /\ exc[c] = Alone(arg[c]).exc
            /\ result[c] = Alone(arg[c]).result

\* a call for an asset task has returned its two records on a resolver that
\* created its ShotManager in an earlier call for a Shot task
C27_Witness ==
    /\ pc[1] = "done"
    /\ Root(1).entity.type = "Asset"
    /\ "ShotManager" \in managers
    /\ Len(result[1]) = 2
    /\ result[1] = Alone(arg[1]).result

-----------------------------------------------------------------------------
(* The connection and the managers *)

\* C26: over any sequence of connect() and disconnect() calls, failing ones
\* included, is_connected() is true exactly when some connect() has succeeded
\* and no later disconnect() has succeeded; whenever the flag is set the
\* connection object is not None; connect() on a connected instance returns
\* True and creates no new connection object.
C26_ConnectedIffLive ==
    /\ [](is_connected <=> live)
    /\ [](_is_connected => instance # 0)
    /\ [][(out'.op = "connect" /\ is_connected)
            => (out'.exc = "" /\ out'.value = TRUE /\ instance' = instance)]_vars

\* a disconnect() whose close() raised, on the second connection object:
\* an earlier disconnect() succeeded, and the instance is still connected
C26_Witness ==
    /\ out.op = "disconnect"
    /\ sent = <<"close">>
    /\ instance = 2
    /\ is_connected

C24_EnsureConnects ==
    [][(out'.op = "ensure_connected" /\ ~is_connected)
        => IF able' THEN is_connected' /\ out'.exc = ""
           ELSE out'.exc = "ConnectionError"]_vars

-----------------------------------------------------------------------------
(* Publishing *)

\* C25: publish and publish_multiple raise FileNotFoundError when a given
\* path does not exist; publish_multiple checks every path first: with any
\* path of the list missing nothing is sent (no task fetch, upload, Version
\* or PublishedFile creation, status update) and the store is unchanged.
C25_MissingFileFirst ==
    [][(/\ out'.op \in PublishOps
        /\ \E i \in 1..Len(out'.args) : out'.args[i] \notin ExistingFiles)
        => (/\ out'.exc = "FileNotFoundError"
            /\ sent' = <<>>
            /\ store' = store)]_vars

\* publish_multiple on a connected instance, the second path missing
C25_Witness ==
    /\ out.op = "publish_multiple"
    /\ out.args = <<"scene.ma", "gone.abc">>
    /\ out.exc = "FileNotFoundError"
    /\ is_connected

\* the versions of a task in the store
TaskVersionCount(task_id) ==
    Cardinality({i \in 1..Len(versions) : versions[i].sg_task = task_id})

\* the rows of the Version table that a publish call created
PublishedRows == {i \in 1..Len(versions) : "client_code" \in DOMAIN versions[i]}

====
